---- MODULE Spec2Model ----
(***************************************************************************)
(* Teacher attendance portal: the login flow of AuthProvider               *)
(* (src/src/contexts/AuthContext.tsx) over teacherAuthService              *)
(* (src/unnamed/part_001 lines 184-522) and the relational store           *)
(* (src/supabase/migrations).                                              *)
(*                                                                         *)
(* JavaScript runs one callback at a time, so a login call is a chain of   *)
(* atomic steps separated by its awaits on the store: LoginInvoke issues   *)
(* the credential query, TeacherResponse runs from the store's answer to   *)
(* the next await or to the end of login, SectionsResponse runs from the   *)
(* class-section answer to the end of login.  Several calls may be in      *)
(* flight; their steps and logout interleave.                              *)
(***************************************************************************)
EXTENDS Integers, Sequences, FiniteSets, TLC

VARIABLES
    teachers,        \* table teachers (rows)
    schools,         \* table schools (rows visible to the client)
    class_sections,  \* table class_sections (rows)
    currentTeacher,  \* useState<Teacher | null>
    authData,        \* useState<TeacherAuthResponse['data'] | null>
    authWarning,     \* useState<string | null>
    calls,           \* login calls by invocation order: position and locals
    lastOp           \* history: the step that produced this state

vars == <<teachers, schools, class_sections, currentTeacher, authData,
          authWarning, calls, lastOp>>

session == <<currentTeacher, authData, authWarning>>

(***************************************************************************)
(* Bounds                                                                  *)
(***************************************************************************)
MaxCalls == 2        \* login calls in one behaviour
MaxSections == 2     \* rows of a drawn class_sections table

(***************************************************************************)
(* null / undefined                                                        *)
(***************************************************************************)
NULL == [null |-> TRUE]      \* null or undefined where an object is expected
NullStr == "<null>"          \* null or undefined where a string is expected
NoGrade == -1                \* null result of extractGradeLevel

(***************************************************************************)
(* Strings that the code inspects character by character are sequences of  *)
(* one-character strings; Chars lists the alphabet in code-point order.    *)
(***************************************************************************)
Chars ==
    <<" ","0","1","2","3","4","5","6","7","8","9",
      "A","B","C","D","E","F","G","H","I","J","K","L","M",
      "N","O","P","Q","R","S","T","U","V","W","X","Y","Z",
      "a","b","c","d","e","f","g","h","i","j","k","l","m",
      "n","o","p","q","r","s","t","u","v","w","x","y","z">>

Ord(c) == CHOOSE i \in 1..Len(Chars) : Chars[i] = c

Digits == {"0","1","2","3","4","5","6","7","8","9"}

DigitVal(c) == Ord(c) - Ord("0")

(***************************************************************************)
(* Messages of teacherAuthService                                          *)
(***************************************************************************)
ErrInvalidCredentials ==
    "Invalid login credentials. Please check your login ID and password."
ErrDatabase == "Database connection error. Please try again."
ErrNoSchool == "No school association found. Please contact your administrator."
ErrServiceUnavailable ==
    "Authentication service unavailable. Please try again later."
ErrFetchSections == "Unable to fetch class sections."
ErrNoSections ==
    "No class sections available for your school. Please contact your administrator."
ErrLinksUnavailable == "Sheet links service unavailable."
WarnNoSections ==
    "No class sections available. Please contact your administrator."
WarnNoSchool ==
    "School information unavailable. Some features may be limited. Please contact your administrator."
SchoolNameUnavailable == "School Name Unavailable"

(***************************************************************************)
(* The store                                                               *)
(***************************************************************************)
SchoolRows ==
    { [id |-> "s1", name |-> "Greenwood Elementary School"],
      [id |-> "s2", name |-> "Riverside High School"] }

\* teacher001 and teacher003 as seeded; teacher007 has no school_id and
\* teacher008 a school_id whose school row the client cannot read.
SeedTeachers ==
    { [id |-> "t1", login_id |-> "teacher001", password |-> "password123",
       name |-> "Sarah Johnson", school_id |-> "s1"],
      [id |-> "t3", login_id |-> "teacher003", password |-> "password123",
       name |-> "Emily Rodriguez", school_id |-> "s2"] }

OrphanTeachers ==
    { [id |-> "t7", login_id |-> "teacher007", password |-> "password123",
       name |-> "Nora Null", school_id |-> NullStr],
      [id |-> "t8", login_id |-> "teacher008", password |-> "password123",
       name |-> "Dan Dangling", school_id |-> "s9"] }

\* id, sheet_link and created_at of the k-th row of class_sections
SectionIds == <<"c1", "c2", "c3", "c4", "c5", "c6">>
SectionLinks ==
    <<"https://docs.google.com/spreadsheets/d/1/edit",
      "https://docs.google.com/spreadsheets/d/2/edit",
      "https://docs.google.com/spreadsheets/d/3/edit",
      "https://docs.google.com/spreadsheets/d/4/edit",
      "https://docs.google.com/spreadsheets/d/5/edit",
      "https://docs.google.com/spreadsheets/d/6/edit">>
SectionCreated ==
    <<"2025-06-12T09:00:01Z", "2025-06-12T09:00:02Z", "2025-06-12T09:00:03Z",
      "2025-06-12T09:00:04Z", "2025-06-12T09:00:05Z", "2025-06-12T09:00:06Z">>

SectionRow(k, schoolId, className) ==
    [id |-> SectionIds[k], school_id |-> schoolId, class_name |-> className,
     sheet_link |-> SectionLinks[k], created_at |-> SectionCreated[k]]

Grade1A == <<"G","r","a","d","e"," ","1","A">>
Grade1B == <<"G","r","a","d","e"," ","1","B">>
Grade2A == <<"G","r","a","d","e"," ","2","A">>
Grade2B == <<"G","r","a","d","e"," ","2","B">>
Grade9Math == <<"G","r","a","d","e"," ","9"," ","M","a","t","h">>
Grade10English == <<"G","r","a","d","e"," ","1","0"," ","E","n","g","l","i","s","h">>
SectionA == <<"S","e","c","t","i","o","n"," ","A">>
Grade0 == <<"G","r","a","d","e"," ","0">>
Room07B12 == <<"R","o","o","m"," ","0","7","B","1","2">>

\* class_sections as seeded for Greenwood Elementary School
SeedSections ==
    { SectionRow(1, "s1", Grade1A), SectionRow(2, "s1", Grade1B),
      SectionRow(3, "s1", Grade2A), SectionRow(4, "s1", Grade2B) }

\* Riverside's rows of the worked example, one Greenwood row beside them
ExampleSections ==
    { SectionRow(1, "s2", Grade9Math), SectionRow(2, "s2", Grade10English),
      SectionRow(3, "s2", Grade1A), SectionRow(4, "s1", SectionA) }

ClassNames == {Grade1A, Grade9Math, Grade10English, SectionA, Grade0, Room07B12}

\* every table of at most MaxSections rows over ClassNames and both schools
DrawnSections ==
    UNION { { { SectionRow(k, f[k][1], f[k][2]) : k \in 1..n } :
              f \in [1..n -> {"s1", "s2"} \X ClassNames] } :
            n \in 0..MaxSections }

(***************************************************************************)
(* What the login form can submit: the credentials of the rows, and those  *)
(* of teacher001 with one field changed in letter case only.               *)
(***************************************************************************)
Lower(s) ==
    CASE s = "Teacher001" -> "teacher001"
      [] s = "Password123" -> "password123"
      [] OTHER -> s

Credentials ==
    { <<t.login_id, t.password>> : t \in teachers }
      \cup { <<"Teacher001", "password123">>, <<"teacher001", "Password123">> }

(***************************************************************************)
(* Store queries.  A response is what the awaited query builder yields:    *)
(* {data, error}, or a thrown exception (kind "throw").                    *)
(***************************************************************************)
Thrown == [kind |-> "throw"]
Answer(data, error) == [kind |-> "result", data |-> data, error |-> error]
DbError == [code |-> "08006"]          \* any error code other than PGRST116
NoRowsError == [code |-> "PGRST116"]   \* .single() on an empty result

\* .eq(column, value): the store's text equality
EqCaseInsensitive(a, b) == Lower(a) = Lower(b)
Eq(a, b) == a = b

\* the embedded resource schools(id, name) of a teachers row
EmbeddedSchool(t) ==
    IF \E s \in schools : s.id = t.school_id
    THEN LET s == CHOOSE s \in schools : s.id = t.school_id
         IN  [id |-> s.id, name |-> s.name]
    ELSE NULL

\* from('teachers').select(...).eq('login_id').eq('password').limit(1).single()
TeacherQuery(loginId, password) ==
    LET matching == { t \in teachers :
                        Eq(t.login_id, loginId) /\ Eq(t.password, password) }
    IN  IF matching = {}
        THEN { Answer(NULL, NoRowsError) }
        ELSE { Answer([id |-> t.id, login_id |-> t.login_id,
                       password |-> t.password, name |-> t.name,
                       school_id |-> t.school_id,
                       schools |-> EmbeddedSchool(t)], NULL) : t \in matching }

TeacherResponses(loginId, password) ==
    TeacherQuery(loginId, password) \cup { Answer(NULL, DbError), Thrown }

\* a <= b in code-point lexicographic order
RECURSIVE LexLeq(_, _)
LexLeq(a, b) ==
    IF a = <<>> THEN TRUE
    ELSE IF b = <<>> THEN FALSE
    ELSE IF Head(a) = Head(b) THEN LexLeq(Tail(a), Tail(b))
    ELSE Ord(Head(a)) < Ord(Head(b))

\* .eq('school_id', schoolId) on class_sections
AllSections(schoolId) == class_sections
MatchingSections(schoolId) ==
    { x \in class_sections : Eq(x.school_id, schoolId) }

\* from('class_sections').select('id, class_name, sheet_link, created_at')
\*   .eq('school_id', schoolId).order('class_name')
\* Rows with equal class_name come in either order.  The data of an answer
\* is the array wrapped as [rows |-> ...], or NULL.
SectionsQuery(schoolId) ==
    LET rows == { [id |-> r.id, class_name |-> r.class_name,
                   sheet_link |-> r.sheet_link, created_at |-> r.created_at] :
                  r \in MatchingSections(schoolId) }
        n == Cardinality(rows)
    IN  { Answer([rows |-> f], NULL) :
          f \in { g \in [1..n -> rows] :
                    /\ \A i, j \in 1..n : i # j => g[i] # g[j]
                    /\ \A i, j \in 1..n :
                         i < j => LexLeq(g[i].class_name, g[j].class_name) } }

SectionsResponses(schoolId) ==
    SectionsQuery(schoolId) \cup { Answer(NULL, DbError), Thrown }

(***************************************************************************)
(* teacherAuthService                                                      *)
(***************************************************************************)
ValidateFailure(error) ==
    [success |-> FALSE, teacher |-> NULL, school |-> NULL, error |-> error]

\* error.code === 'PGRST116'
IsNoRowsMistyped(error) == error.code = "PGRST117"
IsNoRows(error) == error.code = "PGRST116"

\* !teacherData.school_id
MissingSchoolOrEmbed(teacherData) ==
    teacherData.school_id = NullStr \/ teacherData.schools = NULL
MissingSchoolId(teacherData) == teacherData.school_id = NullStr

\* the teacher object built from the returned row
TeacherFieldsWithPassword(teacherData) ==
    [id |-> teacherData.id, name |-> teacherData.name,
     loginId |-> teacherData.login_id, schoolId |-> teacherData.school_id,
     password |-> teacherData.password]
TeacherFields(teacherData) ==
    [id |-> teacherData.id, name |-> teacherData.name,
     loginId |-> teacherData.login_id, schoolId |-> teacherData.school_id]

\* validateTeacherCredentialsWithSchool, from the store's response on.
\* The embedded school is an object for this many-to-one relation, so the
\* Array.isArray branch takes the object itself.
validateTeacherCredentialsWithSchool(resp) ==
    IF resp.kind = "throw" THEN ValidateFailure(ErrServiceUnavailable)
    ELSE IF resp.error # NULL
    THEN IF IsNoRows(resp.error)
         THEN ValidateFailure(ErrInvalidCredentials)
         ELSE ValidateFailure(ErrDatabase)
    ELSE IF resp.data = NULL THEN ValidateFailure(ErrInvalidCredentials)
    ELSE IF MissingSchoolId(resp.data) THEN ValidateFailure(ErrNoSchool)
    ELSE [success |-> TRUE,
          teacher |-> TeacherFields(resp.data),
          school |-> IF resp.data.schools # NULL
                     THEN [id |-> resp.data.schools.id,
                           name |-> resp.data.schools.name]
                     ELSE NULL,
          error |-> NullStr]

\* className.match(/(\d+)/): the leftmost maximal run of decimal digits
RECURSIVE TakeDigits(_)
TakeDigits(s) ==
    IF s = <<>> \/ Head(s) \notin Digits THEN <<>>
    ELSE <<Head(s)>> \o TakeDigits(Tail(s))

RECURSIVE FirstDigitRun(_)
FirstDigitRun(s) ==
    IF s = <<>> THEN <<>>
    ELSE IF Head(s) \in Digits THEN TakeDigits(s)
    ELSE FirstDigitRun(Tail(s))

\* parseInt(digits, 10)
RECURSIVE ParseInt(_)
ParseInt(d) ==
    IF d = <<>> THEN 0
    ELSE 10 * ParseInt(SubSeq(d, 1, Len(d) - 1)) + DigitVal(d[Len(d)])

extractGradeLevel(className) ==
    LET gradeMatch == FirstDigitRun(className)
    IN  IF gradeMatch # <<>> THEN ParseInt(gradeMatch) ELSE NoGrade

\* a || b on number | null
OrElseNullOnly(a, b) == IF a = NoGrade THEN b ELSE a
OrElse(a, b) == IF a = NoGrade \/ a = 0 THEN b ELSE a

AttendanceSheetSuffixNoSpace ==
    <<"A","t","t","e","n","d","a","n","c","e"," ","S","h","e","e","t">>
AttendanceSheetSuffix ==
    <<" ","A","t","t","e","n","d","a","n","c","e"," ","S","h","e","e","t">>

\* getTeacherPermissionLevel: every teacher has write access
getTeacherPermissionLevel(teacherId, classId) == "write"

\* the map callback of fetchAuthorizedSheetLinks; index is 0-based
SheetLinkOfZeroBased(section, index) ==
    [classId |-> section.id,
     className |-> section.class_name,
     sheetName |-> section.class_name \o AttendanceSheetSuffix,
     accessUrl |-> section.sheet_link,
     lastModified |-> section.created_at,
     permissionLevel |-> "write",
     isActive |-> TRUE,
     gradeLevel |-> OrElse(extractGradeLevel(section.class_name), index)]
SheetLinkOf(section, index) ==
    [classId |-> section.id,
     className |-> section.class_name,
     sheetName |-> section.class_name \o AttendanceSheetSuffix,
     accessUrl |-> section.sheet_link,
     lastModified |-> section.created_at,
     permissionLevel |-> "write",
     isActive |-> TRUE,
     gradeLevel |-> OrElse(extractGradeLevel(section.class_name), index + 1)]

\* the comparator (a, b) => (a.gradeLevel || 0) - (b.gradeLevel || 0)
CompareGradeDescending(a, b) == OrElse(b.gradeLevel, 0) - OrElse(a.gradeLevel, 0)
CompareGrade(a, b) == OrElse(a.gradeLevel, 0) - OrElse(b.gradeLevel, 0)

\* Array.prototype.sort, which is stable: insertion after the last element
\* that does not compare greater
RECURSIVE InsertSorted(_, _)
RECURSIVE InsertSortedUnstable(_, _)
InsertSortedUnstable(x, s) ==
    IF s = <<>> THEN <<x>>
    ELSE IF CompareGrade(s[Len(s)], x) < 0 THEN Append(s, x)
    ELSE Append(InsertSortedUnstable(x, SubSeq(s, 1, Len(s) - 1)), s[Len(s)])
InsertSorted(x, s) ==
    IF s = <<>> THEN <<x>>
    ELSE IF CompareGrade(s[Len(s)], x) <= 0 THEN Append(s, x)
    ELSE Append(InsertSorted(x, SubSeq(s, 1, Len(s) - 1)), s[Len(s)])

RECURSIVE SortByGrade(_)
SortByGrade(s) ==
    IF s = <<>> THEN <<>>
    ELSE InsertSorted(s[Len(s)], SortByGrade(SubSeq(s, 1, Len(s) - 1)))

FetchFailure(error) == [success |-> FALSE, sheetLinks |-> <<>>, error |-> error]

\* fetchAuthorizedSheetLinks, from the store's response on
fetchAuthorizedSheetLinks(resp) ==
    IF resp.kind = "throw" THEN FetchFailure(ErrLinksUnavailable)
    ELSE IF resp.error # NULL THEN FetchFailure(ErrFetchSections)
    ELSE IF resp.data = NULL \/ Len(resp.data.rows) = 0
    THEN FetchFailure(ErrNoSections)
    ELSE LET classSections == resp.data.rows
         IN  [success |-> TRUE,
              sheetLinks |-> SortByGrade([i \in 1..Len(classSections) |->
                                 SheetLinkOf(classSections[i], i - 1)]),
              error |-> NullStr]

\* authenticateTeacherAndFetchData, its ways out.  Both functions it awaits
\* catch what they throw, so its own catch block (system error) is never
\* entered and has no counterpart here.
AuthFailed(error) == [success |-> FALSE, error |-> error]

AuthSucceeded(teacher, school, sheetLinks, warning) ==
    [success |-> TRUE,
     data |-> [teacher |-> [id |-> teacher.id, name |-> teacher.name,
                            loginId |-> teacher.loginId,
                            schoolId |-> teacher.schoolId],
               school |-> school,
               sheetLinks |-> sheetLinks],
     warning |-> warning]

\* if (school): whether step 2 fetches the sheet links
ShouldFetchAlways(school) == TRUE
ShouldFetch(school) == school # NULL

\* step 2 of authenticateTeacherAndFetchData once the fetch has returned
AuthAfterFetchStrict(teacher, school, linksResult) ==
    IF linksResult.success
    THEN AuthSucceeded(teacher, school, linksResult.sheetLinks, NullStr)
    ELSE AuthFailed(linksResult.error)
AuthAfterFetch(teacher, school, linksResult) ==
    IF linksResult.success
    THEN AuthSucceeded(teacher, school, linksResult.sheetLinks, NullStr)
    ELSE AuthSucceeded(teacher, school, <<>>, WarnNoSections)

(***************************************************************************)
(* AuthProvider                                                            *)
(***************************************************************************)
isAuthenticated == currentTeacher # NULL

\* result.warning || null
WarningOrNull(w) == IF w = NullStr \/ w = "" THEN NullStr ELSE w

\* the Teacher object login builds from a successful response
TeacherOfWrongField(data) ==
    [id |-> data.teacher.id,
     name |-> data.teacher.name,
     loginId |-> data.teacher.name,
     password |-> "",
     schoolId |-> data.teacher.schoolId,
     schoolName |-> IF data.school # NULL /\ data.school.name # ""
                    THEN data.school.name
                    ELSE SchoolNameUnavailable]
TeacherOf(data) ==
    [id |-> data.teacher.id,
     name |-> data.teacher.name,
     loginId |-> data.teacher.loginId,
     password |-> "",
     schoolId |-> data.teacher.schoolId,
     schoolName |-> IF data.school # NULL /\ data.school.name # ""
                    THEN data.school.name
                    ELSE SchoolNameUnavailable]

\* authWarning after a login that did not succeed
WarningKeptOnFailure(error) == error
WarningOnFailure(error) == NullStr

\* login from the resolution of authenticateTeacherAndFetchData on: the
\* next values of the three state cells and the value login resolves to
LoginOutcomeFirstWins(auth) ==
    IF auth.success /\ auth.data # NULL /\ currentTeacher = NULL
    THEN [currentTeacher |-> TeacherOf(auth.data),
          authData |-> auth.data,
          authWarning |-> WarningOrNull(auth.warning),
          result |-> [success |-> TRUE, warning |-> auth.warning]]
    ELSE [currentTeacher |-> currentTeacher,
          authData |-> authData,
          authWarning |-> IF auth.success THEN authWarning ELSE NullStr,
          result |-> [success |-> auth.success]]
LoginOutcome(auth) ==
    IF auth.success /\ auth.data # NULL
    THEN [currentTeacher |-> TeacherOf(auth.data),
          authData |-> auth.data,
          authWarning |-> WarningOrNull(auth.warning),
          result |-> [success |-> TRUE, warning |-> auth.warning]]
    ELSE [currentTeacher |-> currentTeacher,
          authData |-> authData,
          authWarning |-> WarningOnFailure(auth.error),
          result |-> [success |-> FALSE]]

CallIds == 1..MaxCalls

\* history of a step: its operation, its call (0 for logout) and whether
\* the session was authenticated when it began
Step(op, c) == [op |-> op, call |-> c, wasAuthenticated |-> isAuthenticated]

IdleCall ==
    [pc |-> "idle", loginId |-> NullStr, password |-> NullStr,
     teacherResp |-> NULL, validated |-> NULL, sectionsResp |-> NULL,
     fetched |-> NULL, auth |-> NULL, result |-> NULL,
     teacherQueries |-> 0, sectionQueries |-> 0, loggedOutSince |-> FALSE]

\* the end of login call c, authenticateTeacherAndFetchData having resolved
\* to auth; call is the call's record up to here
LoginReturns(c, call, auth) ==
    LET out == LoginOutcome(auth)
    IN  /\ currentTeacher' = out.currentTeacher
        /\ authData' = out.authData
        /\ authWarning' = out.authWarning
        /\ calls' = [calls EXCEPT ![c] =
                       [call EXCEPT !.pc = "done", !.auth = auth,
                                    !.result = out.result,
                                    !.loggedOutSince = FALSE]]

\* login(loginId, password) up to the await of the credential query
LoginInvoke(c, loginId, password) ==
    /\ calls[c].pc = "idle"
    /\ c > 1 => calls[c - 1].pc # "idle"
    /\ calls' = [calls EXCEPT ![c] =
                   [IdleCall EXCEPT !.pc = "awaitTeacher",
                                    !.loginId = loginId,
                                    !.password = password,
                                    !.teacherQueries = 1]]
    /\ lastOp' = Step("login", c)
    /\ UNCHANGED <<teachers, schools, class_sections, currentTeacher,
                   authData, authWarning>>

\* whether a query that was issued `issued` times and answered resp is sent
\* again: each query is awaited once, outside any loop, and neither
\* function calls itself or its caller on failure
ReissueOnFailure(resp, issued) ==
    /\ issued < 2
    /\ \/ resp.kind = "throw"
       \/ resp.kind = "result" /\ resp.error = DbError
Reissue(resp, issued) == FALSE

\* whether an exception thrown at an awaited store call leaves login as a
\* rejection: each await sits in a try block whose catch returns a failure
\* result, in validateTeacherCredentialsWithSchool, in
\* fetchAuthorizedSheetLinks, in authenticateTeacherAndFetchData and in login
RejectsWhenThrown(resp) == resp.kind = "throw"
Rejects(resp) == FALSE

\* login call c ends by rejecting
LoginRejects(c, call) ==
    /\ calls' = [calls EXCEPT ![c] = [call EXCEPT !.pc = "rejected",
                                                  !.loggedOutSince = FALSE]]
    /\ UNCHANGED <<currentTeacher, authData, authWarning>>

\* the credential query of call c is answered: validate returns, and
\* authenticateTeacherAndFetchData either fails, or awaits the class-section
\* query, or (no school) succeeds with a warning
TeacherResponse(c) ==
    /\ calls[c].pc = "awaitTeacher"
    /\ \E resp \in TeacherResponses(calls[c].loginId, calls[c].password) :
       LET teacherResult == validateTeacherCredentialsWithSchool(resp)
           call == [calls[c] EXCEPT !.teacherResp = resp,
                                    !.validated = teacherResult]
       IN  IF Rejects(resp) THEN LoginRejects(c, call)
           ELSE IF Reissue(resp, calls[c].teacherQueries)
           THEN /\ calls' = [calls EXCEPT ![c] =
                               [call EXCEPT !.teacherQueries = @ + 1]]
                /\ UNCHANGED <<currentTeacher, authData, authWarning>>
           ELSE IF ~teacherResult.success
           THEN LoginReturns(c, call, AuthFailed(teacherResult.error))
           ELSE IF ShouldFetch(teacherResult.school)
           THEN /\ calls' = [calls EXCEPT ![c] =
                               [call EXCEPT !.pc = "awaitSections",
                                            !.sectionQueries = 1]]
                /\ UNCHANGED <<currentTeacher, authData, authWarning>>
           ELSE LoginReturns(c, call,
                    AuthSucceeded(teacherResult.teacher, teacherResult.school,
                                  <<>>, WarnNoSchool))
    /\ lastOp' = Step("teacherResponse", c)
    /\ UNCHANGED <<teachers, schools, class_sections>>

\* the class-section query of call c is answered: fetch returns, then
\* authenticateTeacherAndFetchData, then login
SectionsResponse(c) ==
    /\ calls[c].pc = "awaitSections"
    /\ \E resp \in SectionsResponses(calls[c].validated.teacher.schoolId) :
       LET sheetLinksResult == fetchAuthorizedSheetLinks(resp)
           call == [calls[c] EXCEPT !.sectionsResp = resp,
                                    !.fetched = sheetLinksResult]
       IN  IF Rejects(resp) THEN LoginRejects(c, call)
           ELSE IF Reissue(resp, calls[c].sectionQueries)
           THEN /\ calls' = [calls EXCEPT ![c] =
                               [call EXCEPT !.sectionQueries = @ + 1]]
                /\ UNCHANGED <<currentTeacher, authData, authWarning>>
           ELSE LoginReturns(c, call,
                    AuthAfterFetch(calls[c].validated.teacher,
                                   calls[c].validated.school,
                                   sheetLinksResult))
    /\ lastOp' = Step("sectionsResponse", c)
    /\ UNCHANGED <<teachers, schools, class_sections>>

\* the three state cells as logout() sets them
LogoutKeepsData ==
    [currentTeacher |-> NULL, authData |-> authData, authWarning |-> NullStr]
LogoutState ==
    [currentTeacher |-> NULL, authData |-> NULL, authWarning |-> NullStr]

\* history: logout() ran while call c was awaiting the store (the mark
\* is dropped as the call returns)
InFlight(c) == calls[c].pc \in {"awaitTeacher", "awaitSections"}

MarkLoggedOut ==
    [c \in CallIds |->
        IF InFlight(c) THEN [calls[c] EXCEPT !.loggedOutSince = TRUE]
        ELSE calls[c]]

\* logout(): it touches no login call in flight
Logout ==
    /\ currentTeacher' = LogoutState.currentTeacher
    /\ authData' = LogoutState.authData
    /\ authWarning' = LogoutState.authWarning
    /\ calls' = MarkLoggedOut
    /\ lastOp' = Step("logout", 0)
    /\ UNCHANGED <<teachers, schools, class_sections>>

InitSession ==
    /\ currentTeacher = NULL
    /\ authData = NULL
    /\ authWarning = NullStr
    /\ calls = [c \in CallIds |-> IdleCall]
    /\ lastOp = [op |-> "init", call |-> 0, wasAuthenticated |-> FALSE]

\* the seeded portal, with the two orphaned teachers the code provides for
Init ==
    /\ teachers = SeedTeachers \cup OrphanTeachers
    /\ schools = SchoolRows
    /\ class_sections \in {SeedSections, ExampleSections, {}}
    /\ InitSession

Next ==
    \/ \E c \in CallIds : \E cred \in Credentials :
           LoginInvoke(c, cred[1], cred[2])
    \/ \E c \in CallIds : TeacherResponse(c)
    \/ \E c \in CallIds : SectionsResponse(c)
    \/ Logout

Spec == Init /\ [][Next]_vars


\* one teacher, every small class_sections table
InitLinks ==
    /\ teachers = {t \in SeedTeachers : t.id = "t1"}
    /\ schools = SchoolRows
    /\ class_sections \in DrawnSections
    /\ InitSession

SpecLinks == InitLinks /\ [][Next]_vars

\* every store call eventually returns or throws: the response step of a
\* call that awaits the store is eventually taken
StoreAnswers ==
    \A c \in CallIds :
        /\ WF_vars(TeacherResponse(c))
        /\ WF_vars(SectionsResponse(c))

\* teacher001 with the seeded sections Grade 1A and Grade 2A
InitLive ==
    /\ teachers = {t \in SeedTeachers : t.id = "t1"}
    /\ schools = SchoolRows
    /\ class_sections = {r \in SeedSections : r.id \in {"c1", "c3"}}
    /\ InitSession

SpecLive == InitLive /\ [][Next]_vars /\ StoreAnswers

(***************************************************************************)
(* Properties                                                              *)
(***************************************************************************)
\* the teachers rows whose login_id and password are exactly those of call c
ExactMatches(c) ==
    { t \in teachers : /\ t.login_id = calls[c].loginId
                       /\ t.password = calls[c].password }

\* the store answered call c's credential query: no error result, no exception
TeacherQueryAnswered(c) ==
    /\ calls[c].teacherResp # NULL
    /\ calls[c].teacherResp.kind = "result"
    /\ calls[c].teacherResp.error # DbError

\* the store answered call c's class-section query
SectionsQueryAnswered(c) ==
    /\ calls[c].sectionsResp # NULL
    /\ calls[c].sectionsResp.kind = "result"
    /\ calls[c].sectionsResp.error = NULL

SchoolResolves(schoolId) == \E s \in schools : s.id = schoolId

SchoolOf(schoolId) ==
    LET s == CHOOSE s \in schools : s.id = schoolId
    IN  [id |-> s.id, name |-> s.name]

\* the state is the one in which call c's login has just returned
JustReturned(c) == lastOp.call = c /\ calls[c].pc = "done"

\* C1: when no teachers row has both the submitted login_id and password,
\* login returns success=false, and, the store having answered the query,
\* the credential lookup fails with the invalid-credentials error.
C1_NoMatchInvalidCredentials ==
    \A c \in CallIds :
        (calls[c].teacherResp # NULL /\ ExactMatches(c) = {}) =>
            /\ calls[c].pc = "done"
            /\ ~calls[c].validated.success
            /\ calls[c].result = [success |-> FALSE]
            /\ TeacherQueryAnswered(c) =>
                   /\ calls[c].validated.error = ErrInvalidCredentials
                   /\ calls[c].auth = AuthFailed(ErrInvalidCredentials)

C1_Witness ==
    \E c \in CallIds :
        /\ TeacherQueryAnswered(c)
        /\ ExactMatches(c) = {}
        /\ calls[c].validated.error = ErrInvalidCredentials
        /\ calls[c].result = [success |-> FALSE]

\* C2 as claimed: for a row whose school_id does not resolve to a schools
\* row, the lookup with the row's own credentials fails with the
\* missing-school error and login does not succeed.
C2_Original ==
    \A c \in CallIds : \A t \in ExactMatches(c) :
        (TeacherQueryAnswered(c) /\ ~SchoolResolves(t.school_id)) =>
            /\ calls[c].validated = ValidateFailure(ErrNoSchool)
            /\ calls[c].result = [success |-> FALSE]

\* C2 amended: the lookup fails with the missing-school error, and login
\* does not succeed, for a row that has no school_id; for a row whose
\* school_id is set but resolves to no schools row the lookup succeeds
\* with that row's teacher and a null school.
C2_MissingSchoolIdFails ==
    \A c \in CallIds : \A t \in ExactMatches(c) :
        TeacherQueryAnswered(c) =>
            /\ t.school_id = NullStr =>
                   /\ calls[c].validated = ValidateFailure(ErrNoSchool)
                   /\ calls[c].pc = "done"
                   /\ calls[c].result = [success |-> FALSE]
            /\ (t.school_id # NullStr /\ ~SchoolResolves(t.school_id)) =>
                   /\ calls[c].validated.success
                   /\ calls[c].validated.teacher.id = t.id
                   /\ calls[c].validated.school = NULL

C2_Witness ==
    /\ \E c \in CallIds : \E t \in ExactMatches(c) :
           /\ TeacherQueryAnswered(c)
           /\ t.school_id = NullStr
           /\ calls[c].result = [success |-> FALSE]
    /\ \E c \in CallIds : \E t \in ExactMatches(c) :
           /\ TeacherQueryAnswered(c)
           /\ t.school_id # NullStr
           /\ ~SchoolResolves(t.school_id)
           /\ calls[c].validated.success

\* C3: the session is authenticated only if some login call has returned
\* success, a call returns success only if its loginId and password are
\* exactly those of a teachers row, and currentTeacher carries the id, name,
\* login_id and school_id of the row a successful call matched.
C3_LoggedInOnlyByMatch ==
    /\ \A c \in CallIds :
           (calls[c].result # NULL /\ calls[c].result.success) =>
               ExactMatches(c) # {}
    /\ isAuthenticated =>
           \E c \in CallIds :
               /\ calls[c].result # NULL
               /\ calls[c].result.success
               /\ \E t \in ExactMatches(c) :
                      /\ currentTeacher.id = t.id
                      /\ currentTeacher.name = t.name
                      /\ currentTeacher.loginId = t.login_id
                      /\ currentTeacher.schoolId = t.school_id

C3_Witness ==
    /\ isAuthenticated
    /\ \E c \in CallIds :
           /\ JustReturned(c)
           /\ calls[c].result.success
           /\ currentTeacher.loginId = calls[c].loginId

\* C4: for a row whose school resolves, the lookup with exactly the row's
\* login_id and password (the store answering) succeeds with the row's
\* {id, name, loginId, schoolId} and the school's {id, name}; a pair that
\* equals a row only up to letter case does not match.
C4_ExactMatchSucceeds ==
    \A c \in CallIds :
        TeacherQueryAnswered(c) =>
            /\ \A t \in ExactMatches(c) :
                   SchoolResolves(t.school_id) =>
                       /\ calls[c].validated.success
                       /\ calls[c].validated.teacher =
                              [id |-> t.id, name |-> t.name,
                               loginId |-> t.login_id,
                               schoolId |-> t.school_id]
                       /\ calls[c].validated.school = SchoolOf(t.school_id)
            /\ (/\ ExactMatches(c) = {}
                /\ \E t \in teachers :
                       /\ Lower(calls[c].loginId) = Lower(t.login_id)
                       /\ Lower(calls[c].password) = Lower(t.password)) =>
                   ~calls[c].validated.success

C4_Witness ==
    /\ \E c \in CallIds : \E t \in ExactMatches(c) :
           /\ TeacherQueryAnswered(c)
           /\ SchoolResolves(t.school_id)
           /\ calls[c].validated.success
    /\ \E c \in CallIds :
           /\ TeacherQueryAnswered(c)
           /\ calls[c].loginId = "Teacher001"
           /\ ~calls[c].validated.success

\* the class_sections rows of a school
SectionsOf(schoolId) == { x \in class_sections : x.school_id = schoolId }

\* call c's credential lookup has succeeded with a resolved school
LookupResolvedSchool(c) ==
    /\ calls[c].validated # NULL
    /\ calls[c].validated.success
    /\ calls[c].validated.school # NULL

\* C5: when the lookup succeeds with a resolved school that has no
\* class_sections row and the store answers the class-section query, the
\* fetch fails with the no-class-sections error and login still succeeds:
\* as login returns, the session is authenticated for that teacher with an
\* empty link list and a non-empty warning.
C5_NoSectionsStillLoggedIn ==
    \A c \in CallIds :
        (/\ LookupResolvedSchool(c)
         /\ SectionsQueryAnswered(c)
         /\ SectionsOf(calls[c].validated.teacher.schoolId) = {}) =>
            /\ calls[c].fetched = FetchFailure(ErrNoSections)
            /\ calls[c].pc = "done"
            /\ calls[c].result.success
            /\ calls[c].result.warning = WarnNoSections
            /\ JustReturned(c) =>
                   /\ isAuthenticated
                   /\ currentTeacher.id = calls[c].validated.teacher.id
                   /\ authData.sheetLinks = <<>>
                   /\ authWarning \notin {NullStr, ""}

C5_Witness ==
    \E c \in CallIds :
        /\ LookupResolvedSchool(c)
        /\ SectionsQueryAnswered(c)
        /\ SectionsOf(calls[c].validated.teacher.schoolId) = {}
        /\ JustReturned(c)
        /\ isAuthenticated
        /\ authData.sheetLinks = <<>>

\* C6: when the lookup succeeds without a resolved school, login returns at
\* once with success and the session becomes authenticated with an empty
\* link list and a warning other than the no-class-sections warning; that
\* call never issues the class-section query.
C6_NoSchoolWarnsWithoutFetch ==
    \A c \in CallIds :
        (/\ calls[c].validated # NULL
         /\ calls[c].validated.success
         /\ calls[c].validated.school = NULL) =>
            /\ calls[c].pc = "done"
            /\ calls[c].sectionQueries = 0
            /\ calls[c].sectionsResp = NULL
            /\ calls[c].fetched = NULL
            /\ calls[c].result.success
            /\ calls[c].result.warning \notin {NullStr, "", WarnNoSections}
            /\ JustReturned(c) =>
                   /\ isAuthenticated
                   /\ currentTeacher.id = calls[c].validated.teacher.id
                   /\ authData.school = NULL
                   /\ authData.sheetLinks = <<>>
                   /\ authWarning \notin {NullStr, "", WarnNoSections}

C6_Witness ==
    \E c \in CallIds :
        /\ calls[c].validated # NULL
        /\ calls[c].validated.success
        /\ calls[c].validated.school = NULL
        /\ JustReturned(c)
        /\ isAuthenticated
        /\ authWarning = WarnNoSchool

\* call c's login has just returned after its credential lookup failed
JustFailedLookup(c) ==
    /\ JustReturned(c)
    /\ lastOp.op = "teacherResponse"
    /\ ~calls[c].validated.success

\* C7 as claimed: in whatever state login was invoked, once a login whose
\* lookup failed returns, the session is logged out with no teacher, school
\* or link data, and login returned the bare success=false.
C7_Original ==
    \A c \in CallIds :
        JustFailedLookup(c) =>
            /\ ~isAuthenticated
            /\ currentTeacher = NULL
            /\ authData = NULL
            /\ calls[c].result = [success |-> FALSE]

\* C7 amended: the return of a login whose lookup failed leaves
\* currentTeacher and authData as they were, sets authWarning to null and
\* yields the bare success=false; so the session is logged out after it
\* exactly when it was logged out before it.
C7_FailedLoginKeepsSession ==
    [][\A c \in CallIds :
           (/\ calls[c].pc = "awaitTeacher"
            /\ calls'[c].pc = "done"
            /\ ~calls'[c].validated.success) =>
               /\ currentTeacher' = currentTeacher
               /\ authData' = authData
               /\ authWarning' = NullStr
               /\ calls'[c].result = [success |-> FALSE]
               /\ (~isAuthenticated) =>
                      (currentTeacher' = NULL /\ authData' = NULL)]_vars

C7_Witness ==
    \E c \in CallIds :
        /\ JustFailedLookup(c)
        /\ ~lastOp.wasAuthenticated
        /\ ~isAuthenticated
        /\ calls[c].result = [success |-> FALSE]

\* C8: in the state logout() leaves, currentTeacher, authData and
\* authWarning are null and isAuthenticated is false.
C8_LogoutClearsSession ==
    lastOp.op = "logout" =>
        /\ currentTeacher = NULL
        /\ authData = NULL
        /\ authWarning = NullStr
        /\ ~isAuthenticated

C8_Witness ==
    /\ lastOp.op = "logout"
    /\ lastOp.wasAuthenticated
    /\ ~isAuthenticated

\* C9: a logout() that directly follows a logout(), and a logout() in the
\* logged-out state, change none of currentTeacher, authData, authWarning.
C9_LogoutIdempotent ==
    [][(/\ lastOp'.op = "logout"
        /\ (lastOp.op = "logout" \/ ~isAuthenticated)) =>
           UNCHANGED session]_vars

C9_Witness ==
    /\ lastOp.op = "logout"
    /\ ~lastOp.wasAuthenticated
    /\ \E c \in CallIds : calls[c].result # NULL /\ calls[c].result.success

HasDigit(className) == \E i \in 1..Len(className) : className[i] \in Digits

\* C10 as claimed: every descriptor whose className contains a decimal
\* digit has as gradeLevel the value of the first run of digits.
C10_Original ==
    \A c \in CallIds :
        (calls[c].fetched # NULL /\ calls[c].fetched.success) =>
            \A i \in 1..Len(calls[c].fetched.sheetLinks) :
                LET link == calls[c].fetched.sheetLinks[i]
                IN  HasDigit(link.className) =>
                        link.gradeLevel =
                            ParseInt(FirstDigitRun(link.className))

\* call c's sheet-link fetch has succeeded
FetchSucceeded(c) == calls[c].fetched # NULL /\ calls[c].fetched.success

\* the rows the store returned to call c, in className-ascending order
FetchedRows(c) == calls[c].sectionsResp.data.rows

\* C11: the descriptor of a row whose className has no decimal digit has as
\* gradeLevel the row's 1-based position in the result set the store
\* returned, whatever its place after the re-sort.
C11_NoDigitPositionalFallback ==
    \A c \in CallIds :
        FetchSucceeded(c) =>
            \A i \in 1..Len(FetchedRows(c)) :
                ~HasDigit(FetchedRows(c)[i].class_name) =>
                    \E j \in 1..Len(calls[c].fetched.sheetLinks) :
                        /\ calls[c].fetched.sheetLinks[j].classId =
                               FetchedRows(c)[i].id
                        /\ calls[c].fetched.sheetLinks[j].gradeLevel = i

C11_Witness ==
    \E c \in CallIds :
        /\ FetchSucceeded(c)
        /\ Len(FetchedRows(c)) >= 2
        /\ ~HasDigit(FetchedRows(c)[2].class_name)
        /\ \E j \in 1..Len(calls[c].fetched.sheetLinks) :
               /\ calls[c].fetched.sheetLinks[j].classId = FetchedRows(c)[2].id
               /\ calls[c].fetched.sheetLinks[j].gradeLevel = 2

\* the position of the row with the given id in the rows returned to call c
FetchPosition(c, id) ==
    CHOOSE k \in 1..Len(FetchedRows(c)) : FetchedRows(c)[k].id = id

\* C12: the links of a successful fetch are in ascending gradeLevel order,
\* links of equal gradeLevel in the order the store returned their rows; the
\* rows "Grade 9 Math", "Grade 10 English", "Grade 1A" of one school come
\* out as Grade 1A, Grade 9 Math, Grade 10 English.
C12_SortedByGradeStable ==
    \A c \in CallIds :
        FetchSucceeded(c) =>
            LET links == calls[c].fetched.sheetLinks
            IN  /\ \A i, j \in 1..Len(links) :
                       i < j =>
                           /\ links[i].gradeLevel <= links[j].gradeLevel
                           /\ links[i].gradeLevel = links[j].gradeLevel =>
                                  FetchPosition(c, links[i].classId)
                                      < FetchPosition(c, links[j].classId)
                /\ (/\ class_sections = ExampleSections
                    /\ calls[c].validated.teacher.schoolId = "s2") =>
                       [i \in 1..Len(links) |-> links[i].className] =
                           <<Grade1A, Grade9Math, Grade10English>>

C12_Witness ==
    \E c \in CallIds :
        /\ FetchSucceeded(c)
        /\ class_sections = ExampleSections
        /\ calls[c].validated.teacher.schoolId = "s2"
        /\ [i \in 1..3 |-> FetchedRows(c)[i].class_name] =
               <<Grade10English, Grade1A, Grade9Math>>
        /\ [i \in 1..3 |-> calls[c].fetched.sheetLinks[i].gradeLevel] =
               <<1, 9, 10>>

\* the two classes of failed lookup that the user interface must not tell apart
HiddenFailures == {ErrInvalidCredentials, ErrNoSchool}

\* C13: when a login returns after its lookup failed with the
\* invalid-credentials or the missing-school error, its return value and
\* the session it leaves are those the failure of the other class would
\* have produced: return value and session do not depend on the class.
C13_FailureClassNotObservable ==
    \A c \in CallIds :
        (JustFailedLookup(c) /\ calls[c].validated.error \in HiddenFailures) =>
            \A e \in HiddenFailures :
                LET other == LoginOutcome(AuthFailed(e))
                IN  /\ calls[c].result = other.result
                    /\ currentTeacher = other.currentTeacher
                    /\ authData = other.authData
                    /\ authWarning = other.authWarning

C13_Witness ==
    \E c, d \in CallIds :
        /\ JustFailedLookup(c)
        /\ calls[c].validated.error = ErrNoSchool
        /\ calls[d].pc = "done"
        /\ calls[d].validated.error = ErrInvalidCredentials
        /\ calls[d].result = calls[c].result

\* a store response that is a connectivity or query failure
StoreFailure(resp) ==
    /\ resp # NULL
    /\ \/ resp.kind = "throw"
       \/ resp.kind = "result" /\ resp.error = DbError

\* C14 as claimed: a store failure in the credential lookup or in the
\* class-section fetch makes login report failure, establishes no session
\* and is not reported as the no-class-sections warning.
C14_Original ==
    \A c \in CallIds :
        (/\ calls[c].pc = "done"
         /\ \/ StoreFailure(calls[c].teacherResp)
            \/ StoreFailure(calls[c].sectionsResp)) =>
            /\ calls[c].result = [success |-> FALSE]
            /\ (JustReturned(c) /\ ~lastOp.wasAuthenticated) =>
                   (~isAuthenticated /\ authWarning # WarnNoSections)

\* call c is login("teacher001", "password123") against the seeded store,
\* which answered both queries
SeededScenario(c) ==
    /\ class_sections = SeedSections
    /\ calls[c].loginId = "teacher001"
    /\ calls[c].password = "password123"
    /\ TeacherQueryAnswered(c)
    /\ SectionsQueryAnswered(c)

EarlierCallsFailed(c) ==
    \A d \in CallIds :
        d < c => calls[d].pc = "done" /\ calls[d].result = [success |-> FALSE]

\* the store answered every query call c issued
StoreResponsive(c) ==
    /\ TeacherQueryAnswered(c)
    /\ calls[c].sectionQueries > 0 => SectionsQueryAnswered(c)

\* C16: after failed logins only, a login with the login_id and password of
\* a row that has a school_id, the store answering its queries, returns
\* success and leaves the session authenticated for that teacher.
C16_RetryAfterFailureSucceeds ==
    \A c \in CallIds : \A t \in ExactMatches(c) :
        (/\ EarlierCallsFailed(c)
         /\ StoreResponsive(c)
         /\ calls[c].pc = "done"
         /\ t.school_id # NullStr) =>
            /\ calls[c].result # [success |-> FALSE]
            /\ calls[c].result.success
            /\ JustReturned(c) =>
                   /\ isAuthenticated
                   /\ currentTeacher.id = t.id
                   /\ authData.teacher.id = t.id

C16_Witness ==
    \E c \in CallIds : \E t \in ExactMatches(c) :
        /\ c > 1
        /\ EarlierCallsFailed(c)
        /\ \E d \in CallIds : d < c /\ StoreFailure(calls[d].teacherResp)
        /\ StoreResponsive(c)
        /\ JustReturned(c)
        /\ isAuthenticated
        /\ currentTeacher.id = t.id

\* the classIds of the links of call c's fetch
LinkIds(c) ==
    { calls[c].fetched.sheetLinks[j].classId :
        j \in 1..Len(calls[c].fetched.sheetLinks) }

\* C17: a successful fetch for a school returns one descriptor for each
\* class_sections row of that school, each row's id once as classId, and
\* none for a row of another school.
C17_OneLinkPerSchoolRow ==
    \A c \in CallIds :
        FetchSucceeded(c) =>
            LET own == SectionsOf(calls[c].validated.teacher.schoolId)
            IN  /\ Len(calls[c].fetched.sheetLinks) = Cardinality(own)
                /\ LinkIds(c) = { r.id : r \in own }
                /\ Cardinality(LinkIds(c)) = Len(calls[c].fetched.sheetLinks)
                /\ \A r \in class_sections \ own : r.id \notin LinkIds(c)

C17_Witness ==
    \E c \in CallIds :
        /\ FetchSucceeded(c)
        /\ Len(calls[c].fetched.sheetLinks) = 1
        /\ Cardinality(class_sections) = 2

\* " Attendance Sheet"
SheetTitleEnding ==
    <<" ","A","t","t","e","n","d","a","n","c","e"," ","S","h","e","e","t">>

\* C18: every descriptor of a successful fetch comes from a class_sections
\* row: classId, className, accessUrl and lastModified are the row's id,
\* class_name, sheet_link and created_at, sheetName is the class_name
\* followed by " Attendance Sheet", permissionLevel is "write" and isActive
\* is true.
C18_DescriptorFields ==
    \A c \in CallIds :
        FetchSucceeded(c) =>
            \A j \in 1..Len(calls[c].fetched.sheetLinks) :
                LET link == calls[c].fetched.sheetLinks[j]
                IN  \E r \in class_sections :
                        /\ link.classId = r.id
                        /\ link.className = r.class_name
                        /\ link.sheetName = r.class_name \o SheetTitleEnding
                        /\ link.accessUrl = r.sheet_link
                        /\ link.lastModified = r.created_at
                        /\ link.permissionLevel = "write"
                        /\ link.permissionLevel =
                               getTeacherPermissionLevel(
                                   calls[c].validated.teacher.id, r.id)
                        /\ link.isActive = TRUE

C18_Witness ==
    \E c \in CallIds :
        /\ FetchSucceeded(c)
        /\ JustReturned(c)
        /\ Len(authData.sheetLinks) = 2
        /\ authData.sheetLinks[1].sheetName =
               authData.sheetLinks[1].className \o SheetTitleEnding
        /\ authData.sheetLinks[2].accessUrl # authData.sheetLinks[1].accessUrl

\* C19: a login call sends the credential query once and the class-section
\* query at most once, the latter only after its lookup has succeeded; a
\* call whose query failed in the store has returned without sending any
\* query again.
C19_NoAutomaticRetry ==
    \A c \in CallIds :
        /\ calls[c].teacherQueries = (IF calls[c].pc = "idle" THEN 0 ELSE 1)
        /\ calls[c].sectionQueries \in {0, 1}
        /\ calls[c].sectionQueries = 1 =>
               (calls[c].validated # NULL /\ calls[c].validated.success)
        /\ StoreFailure(calls[c].teacherResp) =>
               (calls[c].pc = "done" /\ calls[c].sectionQueries = 0)
        /\ StoreFailure(calls[c].sectionsResp) => calls[c].pc = "done"

C19_Witness ==
    \E c, d \in CallIds :
        /\ StoreFailure(calls[c].teacherResp)
        /\ calls[c].pc = "done"
        /\ calls[c].teacherQueries = 1
        /\ StoreFailure(calls[d].sectionsResp)
        /\ calls[d].pc = "done"
        /\ calls[d].sectionQueries = 1

\* C20: no password is kept: the password of currentTeacher is the empty
\* string, and neither the teacher of authData nor the teacher a lookup or
\* an authentication response hands on has a password field.
C20_NoPasswordInSession ==
    /\ isAuthenticated => currentTeacher.password = ""
    /\ authData # NULL => "password" \notin DOMAIN authData.teacher
    /\ \A c \in CallIds :
           /\ (calls[c].validated # NULL /\ calls[c].validated.success) =>
                  "password" \notin DOMAIN calls[c].validated.teacher
           /\ (calls[c].auth # NULL /\ calls[c].auth.success) =>
                  "password" \notin DOMAIN calls[c].auth.data.teacher

C20_Witness ==
    /\ isAuthenticated
    /\ currentTeacher.password = ""
    /\ DOMAIN authData.teacher = {"id", "name", "loginId", "schoolId"}
    /\ \E c \in CallIds :
           /\ JustReturned(c)
           /\ calls[c].password = "password123"
           /\ calls[c].teacherResp.data.password = "password123"

\* C21 as claimed: the return of a login call that was invoked before a
\* logout() and answered by the store after it does not take the session
\* from logged out to logged in.
C21_Original ==
    [][\A c \in CallIds :
           (/\ calls[c].loggedOutSince
            /\ InFlight(c)
            /\ calls'[c].pc = "done"
            /\ ~isAuthenticated) =>
               currentTeacher' = NULL]_vars

\* C22 as claimed: whenever the session is authenticated, its link list is
\* empty exactly when its warning is non-null.
C22_Original ==
    isAuthenticated =>
        (authData.sheetLinks = <<>> <=> authWarning # NullStr)

\* call c's login has returned success
Succeeded(c) ==
    /\ calls[c].pc = "done"
    /\ calls[c].result.success

\* C23: currentTeacher is null exactly when authData is null; when they are
\* not null they are those of one successful login response: the id, name,
\* loginId and schoolId of currentTeacher are those of authData.teacher, and
\* authData is the data some call's authentication resolved to.
C23_TeacherAndDataTogether ==
    /\ currentTeacher = NULL <=> authData = NULL
    /\ isAuthenticated =>
           /\ currentTeacher.id = authData.teacher.id
           /\ currentTeacher.schoolId = authData.teacher.schoolId
           /\ currentTeacher.name = authData.teacher.name
           /\ currentTeacher.loginId = authData.teacher.loginId
           /\ \E c \in CallIds :
                  /\ Succeeded(c)
                  /\ calls[c].auth.data = authData

\* call 1 was invoked first and returned last, call 2 having succeeded for
\* another teacher in between
C23_Witness ==
    /\ JustReturned(1)
    /\ Succeeded(1)
    /\ Succeeded(2)
    /\ calls[1].auth.data.teacher.id # calls[2].auth.data.teacher.id
    /\ isAuthenticated
    /\ authData = calls[1].auth.data

\* the session a successful call c establishes as it returns
SessionOf(c) ==
    <<[id |-> calls[c].auth.data.teacher.id,
       name |-> calls[c].auth.data.teacher.name,
       loginId |-> calls[c].auth.data.teacher.loginId,
       password |-> "",
       schoolId |-> calls[c].auth.data.teacher.schoolId,
       schoolName |-> IF calls[c].auth.data.school # NULL
                      THEN calls[c].auth.data.school.name
                      ELSE SchoolNameUnavailable],
      calls[c].auth.data,
      calls[c].auth.warning>>

\* C24: when two login calls have both returned success, in the state the
\* later return leaves the session is that of the call which returned
\* last, whichever of the two was invoked first.
C24_LastCompletedWins ==
    \A c, d \in CallIds :
        (c # d /\ Succeeded(c) /\ Succeeded(d) /\ JustReturned(c)) =>
            session = SessionOf(c)

\* call 1, invoked first, returns after call 2 of another teacher with
\* another warning: the session is call 1's
C24_Witness ==
    /\ JustReturned(1)
    /\ Succeeded(1)
    /\ Succeeded(2)
    /\ SessionOf(1) # SessionOf(2)
    /\ calls[1].auth.warning # calls[2].auth.warning
    /\ session = SessionOf(1)

\* C25: whenever the session is authenticated, every descriptor of its link
\* list has the id, class_name and sheet_link of a class_sections row whose
\* school_id is the schoolId of currentTeacher, and of no row of another
\* school.
C25_LinksOfOwnSchool ==
    isAuthenticated =>
        \A j \in 1..Len(authData.sheetLinks) :
            LET link == authData.sheetLinks[j]
            IN  /\ \E r \in class_sections :
                       /\ r.school_id = currentTeacher.schoolId
                       /\ r.id = link.classId
                       /\ r.class_name = link.className
                       /\ r.sheet_link = link.accessUrl
                /\ \A r \in class_sections :
                       r.id = link.classId =>
                           r.school_id = currentTeacher.schoolId

\* teachers of the two schools have logged in, overlapping, both with links;
\* the session holds the links of the one that returned last
C25_Witness ==
    /\ JustReturned(1)
    /\ Succeeded(1)
    /\ Succeeded(2)
    /\ calls[1].auth.data.teacher.schoolId # calls[2].auth.data.teacher.schoolId
    /\ calls[1].auth.data.sheetLinks # <<>>
    /\ calls[2].auth.data.sheetLinks # <<>>
    /\ isAuthenticated
    /\ Len(authData.sheetLinks) > 0

\* call c's login has resolved to a result with success true or false
Resolved(c) ==
    /\ calls[c].pc = "done"
    /\ \/ calls[c].result = [success |-> FALSE]
       \/ /\ DOMAIN calls[c].result = {"success", "warning"}
          /\ calls[c].result.success = TRUE

\* C26: every login call that has been invoked eventually resolves to a
\* result with success true or false, whatever the store answers (a row, no
\* row, an error result, a thrown exception), the store answering each
\* query; no call ends by rejecting.
C26_LoginAlwaysResolves ==
    \A c \in CallIds : (calls[c].pc # "idle") ~> Resolved(c)

\* one call has resolved after its credential query threw, the other after
\* its class-section query returned an error result
C26_Witness ==
    \E c, d \in CallIds :
        /\ Resolved(c)
        /\ calls[c].teacherResp = Thrown
        /\ Resolved(d)
        /\ calls[d].sectionsResp = Answer(NULL, DbError)

\* C27: every descriptor of a successful fetch has an integer gradeLevel of
\* at least 1, never 0 or null, so that the comparator's default of 0 for a
\* missing gradeLevel replaces no gradeLevel.
C27_GradeLevelAtLeastOne ==
    \A c \in CallIds :
        FetchSucceeded(c) =>
            \A j \in 1..Len(calls[c].fetched.sheetLinks) :
                LET link == calls[c].fetched.sheetLinks[j]
                IN  /\ link.gradeLevel \in Nat
                    /\ link.gradeLevel >= 1
                    /\ link.gradeLevel # NoGrade
                    /\ OrElse(link.gradeLevel, 0) = link.gradeLevel

\* a fetch has returned descriptors for "Grade 0", whose digits read 0, and
\* for "Section A", which has no digit
C27_Witness ==
    \E c \in CallIds :
        /\ FetchSucceeded(c)
        /\ \E i, j \in 1..Len(calls[c].fetched.sheetLinks) :
               /\ calls[c].fetched.sheetLinks[i].className = Grade0
               /\ calls[c].fetched.sheetLinks[j].className = SectionA
               /\ calls[c].fetched.sheetLinks[i].gradeLevel >= 1
               /\ calls[c].fetched.sheetLinks[j].gradeLevel >= 1

====
